---- MODULE Spec2Model ----
(***************************************************************************)
(* Newsletter RESTful API (server/app.py): the four resources' handlers    *)
(* over one table of newsletters, as a state machine over the table.       *)
(***************************************************************************)
EXTENDS Integers, Sequences, FiniteSets, TLC

VARIABLES
    store,      \* the newsletters table: id -> [title, body]
    req,        \* the request handled last: [op, id, form]
    resp,       \* the response to it: [status, rec, list, message]
    live,       \* history: the 201 creates minus the 200 deletes so far
    written,    \* history: per live record, the fields its 2xx writes gave it
    gone,       \* history: the ids a delete has answered 200 for
    store0,     \* concurrent runs: the table when the two requests arrive
    creq,       \* concurrent runs: the two requests in flight
    pc,         \* concurrent runs: each request's position in its handler
    snap,       \* concurrent runs: the row each request's session loaded
    cresp,      \* concurrent runs: each request's response
    order       \* concurrent runs: the requests in the order they committed

vars == <<store, req, resp, live, written, gone, store0, creq, pc, snap, cresp, order>>
concVars == <<store0, creq, pc, snap, cresp, order>>

----------------------------------------------------------------------------
\* Bounds of the model.

\* ids the table holds and the by-id requests name are 1..MaxId
MaxId == 2

\* text values a form submits for title and body
Texts == {"A", "B"}

\* text values a form submits for the field id: a number and a non-number
IdTexts == {"2", "x"}

\* form field names that are not columns of the table
OtherFields == {"foo", "to_dict"}

\* a form submits at most MaxFields fields
MaxFields == 2

Ids == 1..MaxId

\* names of the columns of the newsletters table
Columns == {"id", "title", "body"}

FieldNames == Columns \cup OtherFields

\* the values a form may carry for field k
ValsFor(k) ==
    IF k = "id" THEN IdTexts
    ELSE IF k \in {"title", "body"} THEN Texts
    ELSE {"A"}

\* request.form: a flat map from the submitted field names to text values
FormsOver(F) == {f \in [F -> Texts \cup IdTexts] : \A k \in F : f[k] \in ValsFor(k)}
Forms == UNION {FormsOver(F) : F \in {G \in SUBSET FieldNames : Cardinality(G) <= MaxFields}}
CreateForms == {f \in Forms : DOMAIN f \subseteq Columns}
EmptyForm == [k \in {} |-> "A"]

----------------------------------------------------------------------------
\* Responses.

NoRec == [id |-> 0, title |-> "", body |-> ""]

Response(status, rec, list, message) ==
    [status |-> status, rec |-> rec, list |-> list, message |-> message]

\* an exception no handler catches: AttributeError, TypeError, ORM errors
ServerError == Response(500, NoRec, <<>>, "Internal Server Error")

\* werkzeug's BadRequestKeyError, an HTTPException the Api answers with its code
BadRequest == Response(400, NoRec, <<>>, "Bad Request")

\* Newsletter.to_dict(): exactly the fields id, title, body
to_dict(id, row) == [id |-> id, title |-> row.title, body |-> row.body]

----------------------------------------------------------------------------
\* The store.

Max(S) == CHOOSE m \in S : \A x \in S : x <= m

\* the key the store generates on insert (SQLite rowid: largest key + 1)
NextId(s) == Max(DOMAIN s \cup {0}) + 1

\* Newsletter.query.filter(...).first(): the row loaded, or None
NoneRow == [found |-> FALSE, id |-> 0, title |-> "", body |-> ""]
Lookup(s, id) ==
    IF id \in DOMAIN s
    THEN [found |-> TRUE, id |-> id, title |-> s[id].title, body |-> s[id].body]
    ELSE NoneRow

\* the INTEGER column's conversion of a text value: digits become the number
DigitValue == [t \in {"1", "2", "3", "4"} |->
                 IF t = "1" THEN 1 ELSE IF t = "2" THEN 2 ELSE IF t = "3" THEN 3 ELSE 4]
IsNumeric(t) == t \in DOMAIN DigitValue

\* the columns setattr changed on the loaded row: a column set to the value it
\* was loaded with is not written; the text given for id never equals the
\* integer loaded
Dirty(rec, form) ==
    {k \in DOMAIN form \cap Columns : k = "id" \/ form[k] # rec[k]}

\* a commit that writes the whole row from the form, blank where it names nothing
FlushWholeRow(s, rec, form) ==
    [err   |-> "",
     store |-> [s EXCEPT ![rec.id] =
                  [title |-> IF "title" \in DOMAIN form THEN form["title"] ELSE "",
                   body  |-> IF "body" \in DOMAIN form THEN form["body"] ELSE ""]],
     id    |-> rec.id]

\* db.session.commit() of a patched row: UPDATE <dirty columns> WHERE id = rec.id
Flush(s, rec, form) ==
    LET dirty == Dirty(rec, form)
        same  == [err |-> "", store |-> s, id |-> rec.id]
    IN  IF dirty = {} THEN same
        ELSE IF rec.id \notin DOMAIN s
        THEN [same EXCEPT !.err = "StaleDataError"]
        ELSE IF "id" \in dirty /\ ~IsNumeric(form["id"])
        THEN [same EXCEPT !.err = "IntegrityError"]
        ELSE
          LET newId == IF "id" \in dirty THEN DigitValue[form["id"]] ELSE rec.id
              row   == [title |-> IF "title" \in dirty THEN form["title"]
                                  ELSE s[rec.id].title,
                        body  |-> IF "body" \in dirty THEN form["body"]
                                  ELSE s[rec.id].body]
          IN  IF newId # rec.id /\ newId \in DOMAIN s
              THEN [same EXCEPT !.err = "IntegrityError"]
              ELSE [err   |-> "",
                    store |-> [i \in (DOMAIN s \ {rec.id}) \cup {newId} |->
                                 IF i = newId THEN row ELSE s[i]],
                    id    |-> newId]

\* record.to_dict() after the commit: the attributes are reloaded by key
Serialize(s, id, form, status) ==
    IF "to_dict" \in DOMAIN form \/ id \notin DOMAIN s
    THEN ServerError
    ELSE Response(status, to_dict(id, s[id]), <<>>, "")

\* a delete without its filter: every row goes
RemoveAll(s, id) == [i \in {} |-> s[i]]

\* db.session.delete(record); db.session.commit()
Remove(s, id) == [i \in DOMAIN s \ {id} |-> s[i]]

\* db.session.add(new_record); db.session.commit()
Insert(s, title, body) ==
    [i \in DOMAIN s \cup {NextId(s)} |->
        IF i = NextId(s) THEN [title |-> title, body |-> body] ELSE s[i]]

\* Newsletter.query.all(): the rows in key order
RECURSIVE AllRows(_, _)
AllRows(s, from) ==
    IF \A i \in DOMAIN s : i < from THEN <<>>
    ELSE LET i == CHOOSE j \in DOMAIN s : j >= from /\ \A k \in DOMAIN s : k >= from => j <= k
         IN  <<to_dict(i, s[i])>> \o AllRows(s, i + 1)

----------------------------------------------------------------------------
\* History kept beside the program: what the clients were told.

\* the fields a 2xx patch wrote over title and body
Override(fields, form) ==
    [title |-> IF "title" \in DOMAIN form THEN form["title"] ELSE fields.title,
     body  |-> IF "body" \in DOMAIN form THEN form["body"] ELSE fields.body]

Unknown == [title |-> "?", body |-> "?"]

WrittenAfter(r, rs) ==
    IF r.op = "create" /\ rs.status = 201
    THEN [i \in DOMAIN written \cup {rs.rec.id} |->
            IF i = rs.rec.id THEN [title |-> r.form["title"], body |-> r.form["body"]]
            ELSE written[i]]
    ELSE IF r.op = "patch" /\ rs.status = 201
    THEN [i \in (DOMAIN written \ {r.id}) \cup {rs.rec.id} |->
            IF i = rs.rec.id
            THEN Override(IF r.id \in DOMAIN written THEN written[r.id] ELSE Unknown,
                          r.form)
            ELSE written[i]]
    ELSE IF r.op = "delete" /\ rs.status = 200
    THEN [i \in DOMAIN written \ {r.id} |-> written[i]]
    ELSE written

GoneAfter(r, rs) ==
    IF r.op = "delete" /\ rs.status = 200 THEN gone \cup {r.id} ELSE gone

LiveAfter(r, rs) ==
    IF r.op = "create" /\ rs.status = 201 THEN live + 1
    ELSE IF r.op = "delete" /\ rs.status = 200 THEN live - 1
    ELSE live

Answer(r, rs) ==
    /\ req' = r
    /\ resp' = rs
    /\ live' = LiveAfter(r, rs)
    /\ UNCHANGED concVars

----------------------------------------------------------------------------
\* The handlers, one request at a time.

Request(op, id, form) == [op |-> op, id |-> id, form |-> form]

\* Home.get
HomeGet ==
    /\ Answer(Request("home", 0, EmptyForm),
              Response(200, NoRec, <<>>, "Welcome to the Newsletter RESTful API"))
    /\ UNCHANGED store

\* Newsletters.get
NewslettersGet ==
    /\ Answer(Request("list", 0, EmptyForm),
              Response(200, NoRec, AllRows(store, 1), ""))
    /\ UNCHANGED store

\* a post that reads the form with blank defaults, request.form.get(key, "")
PostResultGet(s, form) ==
    LET title == IF "title" \in DOMAIN form THEN form["title"] ELSE ""
        body  == IF "body" \in DOMAIN form THEN form["body"] ELSE ""
        s2    == Insert(s, title, body)
    IN  [store |-> s2,
         resp  |-> Response(201, to_dict(NextId(s), s2[NextId(s)]), <<>>, "")]

\* the table and the response Newsletters.post leaves
PostResult(s, form) ==
    IF "title" \notin DOMAIN form \/ "body" \notin DOMAIN form
    THEN [store |-> s, resp |-> BadRequest]
    ELSE LET s2 == Insert(s, form["title"], form["body"])
         IN  [store |-> s2,
              resp  |-> Response(201, to_dict(NextId(s), s2[NextId(s)]), <<>>, "")]

NewslettersPost(form) ==
    /\ NextId(store) <= MaxId
    /\ store' = PostResult(store, form).store
    /\ Answer(Request("create", 0, form), PostResult(store, form).resp)

\* the response NewsletterByID.get gives
GetResult(s, id) ==
    LET rec == Lookup(s, id)
    IN  IF ~rec.found THEN ServerError
        ELSE Response(200, to_dict(rec.id, rec), <<>>, "")

NewsletterByIDGet(id) ==
    /\ Answer(Request("fetch", id, EmptyForm), GetResult(store, id))
    /\ UNCHANGED store

\* the table and the response NewsletterByID.patch leaves
PatchResult(s, id, form) ==
    LET rec == Lookup(s, id)
    IN  IF ~rec.found THEN [store |-> s, resp |-> ServerError]
        ELSE LET r == Flush(s, rec, form)
             IN  IF r.err # "" THEN [store |-> s, resp |-> ServerError]
                 ELSE [store |-> r.store,
                       resp  |-> Serialize(r.store, r.id, form, 201)]

NewsletterByIDPatch(id, form) ==
    /\ store' = PatchResult(store, id, form).store
    /\ Answer(Request("patch", id, form), PatchResult(store, id, form).resp)

\* the table and the response NewsletterByID.delete leaves
DeleteResult(s, id) ==
    LET rec == Lookup(s, id)
    IN  IF ~rec.found THEN [store |-> s, resp |-> ServerError]
        ELSE [store |-> Remove(s, rec.id),
              resp  |-> Response(200, NoRec, <<>>, "record successfully deleted")]

NewsletterByIDDelete(id) ==
    /\ store' = DeleteResult(store, id).store
    /\ Answer(Request("delete", id, EmptyForm), DeleteResult(store, id).resp)

EmptyStore == [i \in {} |-> [title |-> "", body |-> ""]]

Idle == [p \in {} |-> 0]

Init ==
    /\ store = EmptyStore
    /\ req = Request("none", 0, EmptyForm)
    /\ resp = Response(0, NoRec, <<>>, "")
    /\ live = 0
    /\ written = EmptyStore
    /\ gone = {}
    /\ store0 = EmptyStore
    /\ creq = Idle
    /\ pc = Idle
    /\ snap = Idle
    /\ cresp = Idle
    /\ order = <<>>

\* the history is not kept
NoHist == UNCHANGED <<written, gone>>

\* the history of writes follows what the client of the request was told
HistWritten ==
    /\ written' = WrittenAfter(req', resp')
    /\ UNCHANGED gone

\* the history of deletes follows what the client of the request was told
HistGone ==
    /\ gone' = GoneAfter(req', resp')
    /\ UNCHANGED written

\* the service, one request at a time
Next ==
    \/ HomeGet /\ NoHist
    \/ NewslettersGet /\ NoHist
    \/ \E form \in CreateForms : NewslettersPost(form) /\ NoHist
    \/ \E id \in Ids : NewsletterByIDGet(id) /\ NoHist
    \/ \E id \in Ids, form \in Forms : NewsletterByIDPatch(id, form) /\ NoHist
    \/ \E id \in Ids : NewsletterByIDDelete(id) /\ NoHist

Spec == Init /\ [][Next]_vars

\* the service, with the history of what each record's clients wrote
NextHist ==
    \/ HomeGet /\ HistWritten
    \/ NewslettersGet /\ HistWritten
    \/ \E form \in CreateForms : NewslettersPost(form) /\ HistWritten
    \/ \E id \in Ids : NewsletterByIDGet(id) /\ HistWritten
    \/ \E id \in Ids, form \in Forms : NewsletterByIDPatch(id, form) /\ HistWritten
    \/ \E id \in Ids : NewsletterByIDDelete(id) /\ HistWritten

SpecHist == Init /\ [][NextHist]_vars

\* the service, with the history of the ids deleted
NextGone ==
    \/ HomeGet /\ HistGone
    \/ NewslettersGet /\ HistGone
    \/ \E form \in CreateForms : NewslettersPost(form) /\ HistGone
    \/ \E id \in Ids : NewsletterByIDGet(id) /\ HistGone
    \/ \E id \in Ids, form \in Forms : NewsletterByIDPatch(id, form) /\ HistGone
    \/ \E id \in Ids : NewsletterByIDDelete(id) /\ HistGone

SpecGone == Init /\ [][NextGone]_vars

----------------------------------------------------------------------------
\* Two requests for the same id in flight at once, each in a session of its
\* own: the lookup, the commit and the reload for the response are separate
\* statements against the store and may interleave.

Procs == {1, 2}

Rows == [title : Texts, body : Texts]
Stores == UNION {[D -> Rows] : D \in SUBSET Ids}

\* the forms of the concurrent patches name columns only
ConcForms == {f \in Forms : DOMAIN f \subseteq Columns}
ConcRequests(id) ==
    {Request("patch", id, f) : f \in ConcForms} \cup {Request("delete", id, EmptyForm)}

NoResp == Response(0, NoRec, <<>>, "")

InitConc ==
    /\ store \in Stores
    /\ store0 = store
    /\ \E id \in DOMAIN store : creq \in [Procs -> ConcRequests(id)]
    /\ pc = [p \in Procs |-> "lookup"]
    /\ snap = [p \in Procs |-> NoneRow]
    /\ cresp = [p \in Procs |-> NoResp]
    /\ order = <<>>
    /\ req = Request("none", 0, EmptyForm)
    /\ resp = NoResp
    /\ live = 0
    /\ written = EmptyStore
    /\ gone = {}

Finish(p, rs) ==
    /\ pc' = [pc EXCEPT ![p] = "done"]
    /\ cresp' = [cresp EXCEPT ![p] = rs]

\* record = Newsletter.query.filter(Newsletter.id == id).first(), in patch and
\* in delete; on None the next statement of the handler raises
LookupStep(p, op) ==
    /\ creq[p].op = op
    /\ pc[p] = "lookup"
    /\ snap' = [snap EXCEPT ![p] = Lookup(store, creq[p].id)]
    /\ IF Lookup(store, creq[p].id).found
       THEN pc' = [pc EXCEPT ![p] = "commit"] /\ UNCHANGED cresp
       ELSE Finish(p, ServerError)
    /\ UNCHANGED <<store, store0, creq, order, req, resp, live, written, gone>>

PatchLookup(p) == LookupStep(p, "patch")

DeleteLookup(p) == LookupStep(p, "delete")

\* the setattr loop, db.session.add(record) and db.session.commit() of patch
PatchCommit(p) ==
    /\ creq[p].op = "patch"
    /\ pc[p] = "commit"
    /\ LET r == Flush(store, snap[p], creq[p].form)
       IN  IF r.err # ""
           THEN /\ Finish(p, ServerError)
                /\ UNCHANGED <<store, snap, order>>
           ELSE /\ store' = r.store
                /\ snap' = [snap EXCEPT ![p].id = r.id]
                /\ order' = Append(order, p)
                /\ pc' = [pc EXCEPT ![p] = "serialize"]
                /\ UNCHANGED cresp
    /\ UNCHANGED <<store0, creq, req, resp, live, written, gone>>

\* record.to_dict() and make_response(record_dict, 201) of patch
PatchSerialize(p) ==
    /\ creq[p].op = "patch"
    /\ pc[p] = "serialize"
    /\ Finish(p, Serialize(store, snap[p].id, creq[p].form, 201))
    /\ UNCHANGED <<store, store0, creq, snap, order, req, resp, live, written, gone>>

\* a delete whose commit raises when its DELETE matches no row
DeleteCommitStale(p) ==
    /\ creq[p].op = "delete"
    /\ pc[p] = "commit"
    /\ IF snap[p].id \in DOMAIN store
       THEN /\ store' = Remove(store, snap[p].id)
            /\ order' = Append(order, p)
            /\ Finish(p, Response(200, NoRec, <<>>, "record successfully deleted"))
       ELSE /\ Finish(p, ServerError)
            /\ UNCHANGED <<store, order>>
    /\ UNCHANGED <<store0, creq, snap, req, resp, live, written, gone>>

\* db.session.delete(record), db.session.commit() and the response of delete:
\* a DELETE that matches no row is only warned about
DeleteCommit(p) ==
    /\ creq[p].op = "delete"
    /\ pc[p] = "commit"
    /\ store' = Remove(store, snap[p].id)
    /\ order' = Append(order, p)
    /\ Finish(p, Response(200, NoRec, <<>>, "record successfully deleted"))
    /\ UNCHANGED <<store0, creq, snap, req, resp, live, written, gone>>

NextConc ==
    \/ \E p \in Procs : PatchLookup(p)
    \/ \E p \in Procs : DeleteLookup(p)
    \/ \E p \in Procs : PatchCommit(p)
    \/ \E p \in Procs : PatchSerialize(p)
    \/ \E p \in Procs : DeleteCommit(p)

SpecConc == InitConc /\ [][NextConc]_vars

\* what one request alone leaves and answers
SeqStore(s, r) ==
    IF r.op = "patch" THEN PatchResult(s, r.id, r.form).store
    ELSE DeleteResult(s, r.id).store

SeqResp(s, r) ==
    IF r.op = "patch" THEN PatchResult(s, r.id, r.form).resp
    ELSE DeleteResult(s, r.id).resp

\* the store after request a, then request b
Serial(s, a, b) == SeqStore(SeqStore(s, a), b)

AllDone == \A p \in Procs : pc[p] = "done"

Other(p) == CHOOSE q \in Procs : q # p

----------------------------------------------------------------------------
\* Properties.

ById == {"fetch", "patch", "delete"}

\* C1: every record that exists is fetched with status 200, its id, and the
\* title and body of the last write accepted for it: the values its create
\* gave, overridden per field by its most recent successful patch.
C1_FetchReturnsLastWrite ==
    \A i \in DOMAIN store :
        /\ i \in DOMAIN written
        /\ GetResult(store, i) =
             Response(200, [id |-> i, title |-> written[i].title,
                            body |-> written[i].body], <<>>, "")

\* C2: list-all returns exactly one entry per created-and-not-deleted record,
\* as many entries as 201 creates minus 200 deletes, no two sharing an id.
C2_ListOnePerLiveRecord ==
    LET rows == AllRows(store, 1)
    IN  /\ Len(rows) = live
        /\ {rows[k].id : k \in 1..Len(rows)} = DOMAIN store
        /\ \A k, l \in 1..Len(rows) : k # l => rows[k].id # rows[l].id
        /\ req.op = "list" => resp.status = 200 /\ resp.list = rows

C2_Witness ==
    /\ req.op = "list"
    /\ live = 2
    /\ Len(resp.list) = 2
    /\ resp.list[1].id # resp.list[2].id

\* C3: a fetch, patch or delete of an id that has no record answers 404, not a
\* server error, and leaves the store unchanged.
C3_MissingIdIsNotFound ==
    [][(req'.op \in ById /\ req'.id \notin DOMAIN store)
         => (resp'.status = 404 /\ store' = store)]_vars

\* C4: once a delete of id X has answered 200, every later fetch of X and
\* every later delete of X answers not-found (404).
C4_DeletedStaysNotFound ==
    [][(req'.op \in {"fetch", "delete"} /\ req'.id \in gone)
         => resp'.status = 404]_vars

\* C5: a create whose form lacks title or body is answered with a 4xx
\* validation error, not a server error, and the stored records are the same
\* after the request as before it.
C5_CreateMissingFieldRejected ==
    [][(req'.op = "create"
          /\ ("title" \notin DOMAIN req'.form \/ "body" \notin DOMAIN req'.form))
         => (resp'.status \in 400..499 /\ store' = store)]_vars

C5_Witness ==
    /\ req.op = "create"
    /\ DOMAIN req.form = {"body"}
    /\ resp.status = 400
    /\ DOMAIN store = {1}

\* C6: a patch of an existing record writes only the fields the form names:
\* every other field of that record, and every other record, is untouched, and
\* a form naming no column changes nothing.
C6_PatchWritesOnlyNamedFields ==
    [][(req'.op = "patch" /\ req'.id \in DOMAIN store)
         => LET named == DOMAIN req'.form
                old   == store[req'.id]
                loc   == IF req'.id \in DOMAIN store' THEN req'.id
                         ELSE CHOOSE n \in DOMAIN store' \ DOMAIN store : TRUE
            IN  /\ Cardinality(DOMAIN store') = Cardinality(DOMAIN store)
                /\ loc \in DOMAIN store'
                /\ "id" \notin named => loc = req'.id
                /\ "title" \notin named => store'[loc].title = old.title
                /\ "body" \notin named => store'[loc].body = old.body
                /\ \A j \in DOMAIN store \ {req'.id} :
                      j \in DOMAIN store' /\ store'[j] = store[j]
                /\ named \cap Columns = {} => store' = store]_vars

C6_Witness ==
    /\ req.op = "patch"
    /\ DOMAIN req.form = {"title"}
    /\ resp.status = 201
    /\ req.id \in DOMAIN store
    /\ store[req.id].title = req.form["title"]
    /\ store[req.id].body # req.form["title"]

\* C7: a patch of an existing record whose form names a field outside
\* {title, body} is rejected: it does not answer 201 and no attribute of the
\* stored record changes.
C7_UnknownFieldRejected ==
    [][(req'.op = "patch" /\ req'.id \in DOMAIN store
          /\ ~(DOMAIN req'.form \subseteq {"title", "body"}))
         => (resp'.status # 201 /\ store' = store)]_vars

\* C8: the id of an existing record never changes: the record stays under the
\* id its create returned until a delete of that id removes it.
C8_IdImmutable ==
    [][\A i \in DOMAIN store :
          \/ i \in DOMAIN store'
          \/ req'.op = "delete" /\ req'.id = i]_vars

\* C9: a patch of an existing record resubmitted with the same payload leaves
\* the same stored state and returns the same record as the first submission.
C9_PatchIdempotent ==
    [][(req.op = "patch" /\ resp.status = 201 /\ req' = req)
         => (store' = store /\ resp' = resp)]_vars

HasDelete == \E p \in Procs : creq[p].op = "delete"

NoIdField == \A p \in Procs : "id" \notin DOMAIN creq[p].form

SerialOutcomes ==
    {Serial(store0, creq[1], creq[2]), Serial(store0, creq[2], creq[1])}

\* a request that found its record and would succeed alone answers a server error
FailsByOther(p) ==
    /\ snap[p].found
    /\ cresp[p].status = 500
    /\ SeqResp(store0, creq[p]).status # 500

\* C10: two concurrent requests for the same id (a patch and a delete, or two
\* patches) end in the store of one of their serial orders, the request that
\* commits last decides the final state, and neither request fails because of
\* the other.
C10_LastWriterWins ==
    AllDone =>
        /\ store \in SerialOutcomes
        /\ Len(order) = 2 => store = Serial(store0, creq[order[1]], creq[order[2]])
        /\ \A p \in Procs : ~FailsByOther(p)

\* the patch p and the delete q both found the record and q committed first
DeleteCommitsFirst(p, q) ==
    /\ creq[p].op = "patch"
    /\ creq[q].op = "delete"
    /\ snap[p].found
    /\ snap[q].found
    /\ order # <<>>
    /\ order[1] = q

\* C10, amended: a patch and a delete of the same id end in the store of one
\* of their serial orders, the order of their commits when both commit; the
\* delete that found the record answers 200, and the patch that found it
\* answers a server error when the delete commits first; two patches whose
\* forms do not name id both succeed.
C10_RaceOutcome ==
    AllDone =>
        /\ HasDelete => store \in SerialOutcomes
        /\ (HasDelete /\ Len(order) = 2)
              => store = Serial(store0, creq[order[1]], creq[order[2]])
        /\ \A p \in Procs :
              (creq[p].op = "delete" /\ snap[p].found) => cresp[p].status = 200
        /\ \A p \in Procs :
              DeleteCommitsFirst(p, Other(p)) => cresp[p].status = 500
        /\ (~HasDelete /\ NoIdField) => \A p \in Procs : ~FailsByOther(p)

\* the delete commits between the patch's lookup and the patch's commit
C10_Witness ==
    /\ AllDone
    /\ creq[1].op = "patch"
    /\ creq[2].op = "delete"
    /\ snap[1].found
    /\ snap[2].found
    /\ DOMAIN creq[1].form = {"title"}
    /\ cresp[1].status = 500
    /\ cresp[2].status = 200
    /\ order = <<2>>

\* two patches end in a store that neither serial order produces
C10_MixedRow ==
    /\ AllDone
    /\ ~HasDelete
    /\ NoIdField
    /\ store \notin SerialOutcomes

====
